---- MODULE Spec2Model ----
(***************************************************************************)
(* WhisperRepository (backend/db/repository.py): a facade over a primary   *)
(* document store (MongoDB, collection "whispers") and a secondary graph   *)
(* index (Neo4j: Whisper nodes, Tag nodes, TAGGED edges).                  *)
(*                                                                         *)
(* Every facade operation is a coroutine.  Control can pass to another     *)
(* task only at an await, and every await of the facade is a store call,   *)
(* so one action below is one store call together with the local code     *)
(* that follows it up to the next store call.                              *)
(***************************************************************************)
EXTENDS Integers, Sequences, FiniteSets, TLC

\* ---------------------------------------------------------------- bounds
MaxIds == 2      \* number of documents the primary store will ever insert
MaxFaults == 1   \* store calls that fail over one run
MaxCloses == 2   \* aclose calls made on one repository

\* ------------------------------------------------------------ value sets
Main == "main"                 \* the coroutine main of the ingestion script
Procs == {"t1", "t2"}          \* concurrently running caller tasks
Tags == {"a", "b"}

None == <<>>                   \* Python None
Some(v) == <<v>>               \* a value of an Optional field
IsNone(o) == Len(o) = 0
Val(o) == o[1]

Oids == 1 .. MaxIds            \* ObjectIds the store generates, in order


ToSet(s) == {s[i] : i \in 1 .. Len(s)}

\* ------------------------------------------------------------ identifiers
\* An identifier string handed to the facade.  str(ObjectId) is 24 lower
\* case hex digits; ObjectId(s) accepts any 24 hex digits in either case
\* and raises InvalidId for everything else.
LowerId(o) == [form |-> "lower", oid |-> o]
UpperId(o) == [form |-> "upper", oid |-> o]
BadId == [form |-> "bad", oid |-> 0]
\* The id strings callers pass: the first and the last ObjectId the store
\* issues in lower case, the first in upper case, and a malformed one.
IdStrings == {LowerId(1), LowerId(MaxIds), UpperId(1), BadId}

StrOf(o) == LowerId(o)

IsValidId(s) == s.form # "bad"
ObjectId(s) == s.oid

IsoFormat(t) == <<"iso", t>>

\* ------------------------------------------------------------ whispers
\* WhisperModel as the caller builds it: no id yet.
WhisperInput(text, tags) ==
    [id |-> None,
     raw_text |-> text,
     source_url |-> IF text = "x" THEN None ELSE Some("u"),
     embeddings |-> IF text = "x" THEN Some("e") ELSE None,
     tags |-> Some(tags),
     created_at |-> IF text = "x" THEN 1 ELSE 2]

\* whispers callers create: one without tags, one with two tags, one of them
\* listed twice
WhisperInputs ==
    {WhisperInput("x", <<>>), WhisperInput("y", <<"b", "a", "b">>)}

\* The keyword arguments of update: a function from field names to values.
NoFields == <<>>
FieldSets ==
    {NoFields,
     [raw_text |-> "y"],
     [tags |-> Some(<<"a">>)],
     [tags |-> None]}

\* DocOf with "embeddings" among the excluded fields
DocOfNoEmbeddings(w) ==
    [raw_text |-> w.raw_text, source_url |-> w.source_url,
     embeddings |-> None, tags |-> w.tags, created_at |-> w.created_at]

\* whisper.dict(by_alias=True, exclude={"id"}): the document that is inserted.
DocOf(w) ==
    [raw_text |-> w.raw_text, source_url |-> w.source_url,
     embeddings |-> w.embeddings, tags |-> w.tags, created_at |-> w.created_at]

\* WhisperModel(**doc) for the document stored under _id = o.
ModelOf(o, doc) ==
    [id |-> Some(StrOf(o)), raw_text |-> doc.raw_text, source_url |-> doc.source_url,
     embeddings |-> doc.embeddings, tags |-> doc.tags, created_at |-> doc.created_at]

\* a replacement built from the fields, the rest at the model's defaults
SetFieldsDefaults(doc, fields) ==
    [k \in DOMAIN doc |->
        IF k \in DOMAIN fields THEN fields[k]
        ELSE IF k = "embeddings" THEN None ELSE doc[k]]

\* {"$set": fields} applied to a document.
SetFields(doc, fields) ==
    [k \in DOMAIN doc \cup DOMAIN fields |->
        IF k \in DOMAIN fields THEN fields[k] ELSE doc[k]]

\* ------------------------------------------------------------ state
VARIABLES
    docs,             \* primary store: ObjectId -> document (present ids only)
    nextOid,          \* the ObjectId the next insert_one generates
    mongoIndexes,     \* primary store: fields that carry an index
    nodes,            \* index: mongo_id -> properties of the Whisper node
    tagNodes,         \* index: values of the Tag nodes
    edges,            \* index: TAGGED edges <<mongo_id, tag value>>
    indexes_created,  \* WhisperRepository._indexes_created
    calls,            \* per task: the facade call it runs or last ran
    faults,           \* store calls that have failed so far
    mongo_client,     \* WhisperRepository.mongo_client: "open" or "closed"
    neo4j,            \* WhisperRepository.neo4j: "open" or "closed"
    acloses,          \* aclose calls made on the repository
    files             \* ingestion: the tasks main has built, one per file

vars == <<docs, nextOid, mongoIndexes, nodes, tagNodes, edges,
          indexes_created, calls, faults, mongo_client, neo4j, acloses, files>>

stores == <<docs, nextOid, mongoIndexes, nodes, tagNodes, edges>>
index == <<nodes, tagNodes, edges>>
handles == <<mongo_client, neo4j, acloses>>

Pending == [kind |-> "pending"]
NotFound == [kind |-> "not_found"]
Found(m) == [kind |-> "found", whisper |-> m]
Deleted(b) == [kind |-> "deleted", flag |-> b]
Raised(e) == [kind |-> "raised", error |-> e]
Closed == [kind |-> "closed"]

IdleCall ==
    [op |-> "none", pc |-> "idle", id |-> BadId, whisper |-> None,
     fields |-> NoFields, updated |-> NotFound, deleted_count |-> 0,
     created |-> None, failed |-> "none", result |-> Pending]

\* The state after WhisperRepository(), with a call slot for each of the tasks.
InitRepo(tasks) ==
    /\ docs = <<>>
    /\ nextOid = 1
    /\ mongoIndexes = {}
    /\ nodes = <<>>
    /\ tagNodes = {}
    /\ edges = {}
    /\ indexes_created = FALSE
    /\ calls = [p \in tasks |-> IdleCall]
    /\ faults = 0
    /\ mongo_client = "open"
    /\ neo4j = "open"
    /\ acloses = 0

Init == InitRepo(Procs) /\ files = {}

\* ------------------------------------------------------------ helpers
Running(p) == calls[p].pc \notin {"idle", "done"}

Remove(f, k) == [x \in DOMAIN f \ {k} |-> f[x]]

EdgesOf(E, id) == {e \in E : e[1] = id}
TagsOf(E, id) == {e[2] : e \in EdgesOf(E, id)}

\* insert_one calls that tasks have still to issue
PendingInserts ==
    Cardinality({q \in Procs : calls[q].op = "create" /\ calls[q].pc \in
                    {"create_index_created_at", "create_index_tags", "insert_one"}})

\* FirstCall without the "if not fields" shortcut of update
FirstCallNoShortcut(c) ==
    CASE c.op = "create" -> "insert_one"
      [] c.op = "get"    -> "find_one"
      [] c.op = "update" -> "update_one"
      [] c.op = "delete" -> "delete_one"

\* The store call a facade operation issues once ensure_indexes is through.
FirstCall(c) ==
    CASE c.op = "create" -> "insert_one"
      [] c.op = "get"    -> "find_one"
      [] c.op = "update" -> IF c.fields = NoFields THEN "find_one" ELSE "update_one"
      [] c.op = "delete" -> "delete_one"

\* Entry of every operation: "await self.ensure_indexes()" up to its first
\* await, which the test of _indexes_created skips once the flag is set.
Entered(c) ==
    [c EXCEPT !.pc = IF indexes_created THEN FirstCall(c)
                     ELSE "create_index_created_at"]

Return(p, r) == calls' = [calls EXCEPT ![p].pc = "done", ![p].result = r]

\* find_one({"_id": ObjectId(id)}) mapped through WhisperModel(**doc)
Lookup(D, id) ==
    IF IsValidId(id) /\ ObjectId(id) \in DOMAIN D
    THEN Found(ModelOf(ObjectId(id), D[ObjectId(id)]))
    ELSE NotFound

\* ------------------------------------------------------------ calls
\* "created = await repo.create(whisper)": the whisper the task's create has
\* just returned, when create was the call it made last.
JustCreated(p) ==
    IF calls[p].op = "create" /\ calls[p].pc = "done" /\ calls[p].result.kind = "found"
    THEN Some(calls[p].result.whisper)
    ELSE None

\* A facade call is made on a repository that has not been closed: get_repo
\* closes it after the request handler has returned.
CallCreate(p, inputs) ==
    /\ ~Running(p)
    /\ acloses = 0
    /\ nextOid + PendingInserts <= MaxIds
    /\ \E w \in inputs :
          calls' = [calls EXCEPT ![p] =
              Entered([IdleCall EXCEPT !.op = "create", !.whisper = Some(w)])]
    /\ UNCHANGED <<files, handles, stores, indexes_created, faults>>

CallGet(p, ids) ==
    /\ ~Running(p)
    /\ acloses = 0
    /\ \E id \in ids :
          calls' = [calls EXCEPT ![p] =
              Entered([IdleCall EXCEPT !.op = "get", !.id = id,
                                       !.created = JustCreated(p)])]
    /\ UNCHANGED <<files, handles, stores, indexes_created, faults>>

CallUpdate(p, ids, fieldSets) ==
    /\ ~Running(p)
    /\ acloses = 0
    /\ \E id \in ids, f \in fieldSets :
          calls' = [calls EXCEPT ![p] =
              Entered([IdleCall EXCEPT !.op = "update", !.id = id, !.fields = f])]
    /\ UNCHANGED <<files, handles, stores, indexes_created, faults>>

CallDelete(p, ids) ==
    /\ ~Running(p)
    /\ acloses = 0
    /\ \E id \in ids :
          calls' = [calls EXCEPT ![p] =
              Entered([IdleCall EXCEPT !.op = "delete", !.id = id])]
    /\ UNCHANGED <<files, handles, stores, indexes_created, faults>>

\* ------------------------------------------------------------ ensure_indexes
CreateIndexCreatedAt(p) ==
    /\ calls[p].pc = "create_index_created_at"
    /\ mongoIndexes' = mongoIndexes \cup {"created_at"}
    /\ calls' = [calls EXCEPT ![p].pc = "create_index_tags"]
    /\ UNCHANGED <<files, handles, docs, nextOid, index, indexes_created, faults>>

CreateIndexTags(p) ==
    /\ calls[p].pc = "create_index_tags"
    /\ mongoIndexes' = mongoIndexes \cup {"tags"}
    /\ indexes_created' = TRUE
    /\ calls' = [calls EXCEPT ![p].pc = FirstCall(calls[p])]
    /\ UNCHANGED <<files, handles, docs, nextOid, index, faults>>

\* ------------------------------------------------------------ create
InsertOne(p) ==
    /\ calls[p].pc = "insert_one"
    /\ nextOid <= MaxIds
    /\ docs' = (nextOid :> DocOf(Val(calls[p].whisper))) @@ docs
    /\ nextOid' = nextOid + 1
    /\ calls' = [calls EXCEPT
            ![p].whisper = Some([Val(calls[p].whisper) EXCEPT !.id = Some(StrOf(nextOid))]),
            ![p].pc = "upsert"]
    /\ UNCHANGED <<files, handles, mongoIndexes, index, indexes_created, faults>>

\* MERGE (w:Whisper {mongo_id: $id}) SET ... WITH w UNWIND $tags AS tag
\* MERGE (t:Tag {value: tag}) MERGE (w)-[:TAGGED]->(t)
Upsert(p) ==
    /\ calls[p].pc = "upsert"
    /\ LET w == Val(calls[p].whisper)
           id == Val(w.id)
           tags == IF IsNone(w.tags) THEN {} ELSE ToSet(Val(w.tags))
       IN /\ nodes' = (id :> [raw_text |-> w.raw_text, source_url |-> w.source_url,
                               created_at |-> IsoFormat(w.created_at)]) @@ nodes
          /\ tagNodes' = tagNodes \cup tags
          /\ edges' = edges \cup {<<id, t>> : t \in tags}
          /\ Return(p, Found(w))
    /\ UNCHANGED <<files, handles, docs, nextOid, mongoIndexes, indexes_created, faults>>

\* ------------------------------------------------------------ get
\* FindOne with ObjectId(id) evaluated outside the try, as update and delete do
FindOneUnguarded(p) ==
    /\ calls[p].pc = "find_one"
    /\ IF IsValidId(calls[p].id)
       THEN Return(p, Lookup(docs, calls[p].id))
       ELSE Return(p, Raised("InvalidId"))
    /\ UNCHANGED <<files, handles, stores, indexes_created, faults>>

\* try: find_one({"_id": ObjectId(id)}) except Exception: return None
FindOne(p) ==
    /\ calls[p].pc = "find_one"
    /\ Return(p, Lookup(docs, calls[p].id))
    /\ UNCHANGED <<files, handles, stores, indexes_created, faults>>

\* ------------------------------------------------------------ update
UpdateOne(p) ==
    /\ calls[p].pc = "update_one"
    /\ LET id == calls[p].id
           o == ObjectId(id)
       IN IF ~IsValidId(id)
          THEN Return(p, Raised("InvalidId")) /\ UNCHANGED docs
          ELSE /\ docs' = IF o \in DOMAIN docs
                          THEN [docs EXCEPT ![o] = SetFields(docs[o], calls[p].fields)]
                          ELSE docs
               /\ calls' = [calls EXCEPT ![p].pc = "reread"]
    /\ UNCHANGED <<files, handles, nextOid, mongoIndexes, index, indexes_created, faults>>

\* WritesTags without the "is not None" half of the test
WritesTagsKey(fields) == "tags" \in DOMAIN fields

\* "tags" in fields and fields["tags"] is not None
WritesTags(fields) == "tags" \in DOMAIN fields /\ ~IsNone(fields["tags"])

\* "updated = await self.get(id)" and the test that follows it
AfterReread(p, updated) ==
    IF WritesTags(calls[p].fields)
    THEN calls' = [calls EXCEPT ![p].updated = updated, ![p].pc = "replace_tags"]
    ELSE calls' = [calls EXCEPT ![p].updated = updated, ![p].pc = "done",
                                ![p].result = updated]

Reread(p) ==
    /\ calls[p].pc = "reread"
    /\ AfterReread(p, Lookup(docs, calls[p].id))
    /\ UNCHANGED <<files, handles, stores, indexes_created, faults>>

\* MATCH (w:Whisper {mongo_id: $id})-[r:TAGGED]->(t:Tag) DELETE r WITH w
\* UNWIND $tags AS tag MERGE (t:Tag {value: tag}) MERGE (w)-[:TAGGED]->(t)
\* The MATCH yields one row per TAGGED edge of the node; every later clause
\* runs once per row, so with no row nothing is deleted or merged.  UNWIND of
\* null yields no row either.
ReplaceTags(p) ==
    /\ calls[p].pc = "replace_tags"
    /\ LET id == calls[p].id
           list == calls[p].fields["tags"]
           tags == IF IsNone(list) THEN {} ELSE ToSet(Val(list))
           rows == EdgesOf(edges, id)
       IN IF rows = {}
          THEN UNCHANGED <<files, handles, tagNodes, edges>>
          ELSE /\ tagNodes' = tagNodes \cup tags
               /\ edges' = (edges \ rows) \cup {<<id, t>> : t \in tags}
    /\ Return(p, calls[p].updated)
    /\ UNCHANGED <<files, handles, docs, nextOid, mongoIndexes, nodes, indexes_created, faults>>

\* ------------------------------------------------------------ delete
\* DeleteOne reading the count from the collection after the removal
DeleteOneCountsAfter(p) ==
    /\ calls[p].pc = "delete_one"
    /\ LET id == calls[p].id
           o == ObjectId(id)
       IN IF ~IsValidId(id)
          THEN Return(p, Raised("InvalidId")) /\ UNCHANGED docs
          ELSE /\ docs' = Remove(docs, o)
               /\ calls' = [calls EXCEPT
                      ![p].deleted_count = IF o \in DOMAIN docs' THEN 1 ELSE 0,
                      ![p].pc = "detach_delete"]
    /\ UNCHANGED <<files, handles, nextOid, mongoIndexes, index, indexes_created, faults>>

DeleteOne(p) ==
    /\ calls[p].pc = "delete_one"
    /\ LET id == calls[p].id
           o == ObjectId(id)
       IN IF ~IsValidId(id)
          THEN Return(p, Raised("InvalidId")) /\ UNCHANGED docs
          ELSE /\ docs' = Remove(docs, o)
               /\ calls' = [calls EXCEPT
                      ![p].deleted_count = IF o \in DOMAIN docs THEN 1 ELSE 0,
                      ![p].pc = "detach_delete"]
    /\ UNCHANGED <<files, handles, nextOid, mongoIndexes, index, indexes_created, faults>>

\* DetachDelete that also deletes the Tag nodes left without an edge
DetachDeleteOrphans(p) ==
    /\ calls[p].pc = "detach_delete"
    /\ nodes' = Remove(nodes, calls[p].id)
    /\ edges' = edges \ EdgesOf(edges, calls[p].id)
    /\ tagNodes' = {t \in tagNodes : \E e \in edges' : e[2] = t}
    /\ Return(p, Deleted(calls[p].deleted_count = 1))
    /\ UNCHANGED <<files, handles, docs, nextOid, mongoIndexes, indexes_created, faults>>

\* MATCH (w:Whisper {mongo_id: $id}) DETACH DELETE w
DetachDelete(p) ==
    /\ calls[p].pc = "detach_delete"
    /\ nodes' = Remove(nodes, calls[p].id)
    /\ edges' = edges \ EdgesOf(edges, calls[p].id)
    /\ Return(p, Deleted(calls[p].deleted_count = 1))
    /\ UNCHANGED <<files, handles, docs, nextOid, mongoIndexes, tagNodes, indexes_created, faults>>

\* ------------------------------------------------------------ store failures
PrimaryCalls == {"create_index_created_at", "create_index_tags", "insert_one",
                 "find_one", "update_one", "reread", "delete_one"}
IndexCalls == {"upsert", "replace_tags", "detach_delete"}

\* PrimaryFault with every primary-store call wrapped as get wraps find_one
PrimaryFaultSwallowed(p) ==
    /\ faults < MaxFaults
    /\ calls[p].pc \in PrimaryCalls
    /\ calls[p].pc \in {"find_one", "update_one", "reread", "delete_one"}
          => IsValidId(calls[p].id)
    /\ faults' = faults + 1
    /\ calls' = [calls EXCEPT ![p].failed = "primary", ![p].pc = "done",
                              ![p].result = NotFound]
    /\ UNCHANGED <<files, handles, stores, indexes_created>>

\* The primary-store call the task is waiting on fails with a connection
\* error.  In get the call sits inside "try: ... except Exception: return None".
PrimaryFault(p) ==
    /\ faults < MaxFaults
    /\ calls[p].pc \in PrimaryCalls
    /\ calls[p].pc \in {"find_one", "update_one", "reread", "delete_one"}
          => IsValidId(calls[p].id)
    /\ faults' = faults + 1
    /\ LET c == [calls[p] EXCEPT !.failed = "primary"]
       IN CASE c.pc = "find_one" ->
                 calls' = [calls EXCEPT ![p] = [c EXCEPT !.pc = "done", !.result = NotFound]]
            [] c.pc = "reread" ->
                 calls' = [calls EXCEPT ![p] =
                    IF WritesTags(c.fields)
                    THEN [c EXCEPT !.updated = NotFound, !.pc = "replace_tags"]
                    ELSE [c EXCEPT !.updated = NotFound, !.pc = "done", !.result = NotFound]]
            [] OTHER ->
                 calls' = [calls EXCEPT ![p] =
                    [c EXCEPT !.pc = "done", !.result = Raised("StoreUnavailable")]]
    /\ UNCHANGED <<files, handles, stores, indexes_created>>

\* IndexFault with create compensating: the record just inserted is removed
IndexFaultRollback(p) ==
    /\ faults < MaxFaults
    /\ calls[p].pc \in IndexCalls
    /\ faults' = faults + 1
    /\ calls' = [calls EXCEPT ![p].failed = "index", ![p].pc = "done",
                              ![p].result = Raised("IndexUnavailable")]
    /\ docs' = IF calls[p].pc = "upsert"
               THEN Remove(docs, ObjectId(Val(Val(calls[p].whisper).id)))
               ELSE docs
    /\ UNCHANGED <<files, handles, nextOid, mongoIndexes, index, indexes_created>>

\* The session.run the task is waiting on fails; no facade operation catches it.
IndexFault(p) ==
    /\ faults < MaxFaults
    /\ calls[p].pc \in IndexCalls
    /\ faults' = faults + 1
    /\ calls' = [calls EXCEPT ![p].failed = "index", ![p].pc = "done",
                              ![p].result = Raised("IndexUnavailable")]
    /\ UNCHANGED <<files, handles, stores, indexes_created>>

\* ------------------------------------------------------------ specifications
Step(p) ==
    \/ CreateIndexCreatedAt(p)
    \/ CreateIndexTags(p)
    \/ InsertOne(p)
    \/ Upsert(p)
    \/ FindOne(p)
    \/ UpdateOne(p)
    \/ Reread(p)
    \/ ReplaceTags(p)
    \/ DeleteOne(p)
    \/ DetachDelete(p)
    \/ PrimaryFault(p)
    \/ IndexFault(p)

\* Sequential use: one task, one call after the other.
Caller == "t1"

Next ==
    \/ CallCreate(Caller, WhisperInputs)
    \/ CallGet(Caller, IdStrings)
    \/ CallUpdate(Caller, IdStrings, FieldSets)
    \/ CallDelete(Caller, IdStrings)
    \/ Step(Caller)

Spec == Init /\ [][Next]_vars

\* ------------------------------------------------------------ router
\* repo = WhisperRepository(): fresh handles, _indexes_created = False; the
\* stores keep their content.  The previous repository has been closed.
GetRepo ==
    /\ \A p \in Procs : ~Running(p)
    /\ acloses >= 1
    /\ mongo_client' = "open"
    /\ neo4j' = "open"
    /\ acloses' = 0
    /\ indexes_created' = FALSE
    /\ UNCHANGED <<files, stores, calls, faults>>

\* aclose up to its await: self.mongo_client.close() has run.
CallAclose(p) ==
    /\ ~Running(p)
    /\ acloses < MaxCloses
    /\ acloses' = acloses + 1
    /\ mongo_client' = "closed"
    /\ calls' = [calls EXCEPT ![p] = [IdleCall EXCEPT !.op = "aclose", !.pc = "neo4j_close"]]
    /\ UNCHANGED <<files, stores, indexes_created, faults, neo4j>>

\* Neo4jClose with a driver that refuses to be closed twice
Neo4jCloseOnce(p) ==
    /\ calls[p].pc = "neo4j_close"
    /\ neo4j' = "closed"
    /\ IF neo4j = "closed" THEN Return(p, Raised("DriverClosed")) ELSE Return(p, Closed)
    /\ UNCHANGED <<files, stores, indexes_created, faults, mongo_client, acloses>>

\* await self.neo4j.close(): closing a closed driver is a no-op.
Neo4jClose(p) ==
    /\ calls[p].pc = "neo4j_close"
    /\ neo4j' = "closed"
    /\ Return(p, Closed)
    /\ UNCHANGED <<files, stores, indexes_created, faults, mongo_client, acloses>>

\* w.dict(exclude_unset=True): the fields the request body sets; raw_text is
\* required, created_at is a field of the body like any other.
RouterInputs == {WhisperInput("x", <<"a">>)}
RouterIds == {LowerId(1), BadId}
RouterFields == {[raw_text |-> "y", tags |-> Some(<<"b">>)],
                 [raw_text |-> "y", created_at |-> 3]}

\* Requests served one after the other, a repository per request or shared.
NextRouter ==
    \/ GetRepo
    \/ CallCreate(Caller, RouterInputs)
    \/ CallGet(Caller, RouterIds)
    \/ CallUpdate(Caller, RouterIds, RouterFields)
    \/ CallDelete(Caller, RouterIds)
    \/ Step(Caller)
    \/ CallAclose(Caller)
    \/ Neo4jClose(Caller)

SpecRouter == Init /\ [][NextRouter]_vars

\* ------------------------------------------------------------ ingestion
\* WhisperModel(raw_text=text, source_url=str(path), embeddings=..., tags=[])
IngestInputs == {[WhisperInput("y", <<>>) EXCEPT !.embeddings = Some("e")]}

\* Catches with "except OSError" in place of "except Exception"
CatchesOSError(e) == e = "OSError"

\* except Exception as e: the errors a store call or read_text raises
Catches(e) == e \in {"OSError", "StoreUnavailable", "IndexUnavailable", "InvalidId"}

\* The coroutine ingest_file of task p has ended with an exception.
Escapes(p) ==
    /\ calls[p].pc = "done" /\ calls[p].result.kind = "raised"
    /\ ~Catches(calls[p].result.error)

\* main: files = ...; tasks = [ingest_file(repo, f) for f in files]
InitIngest == InitRepo(Procs \cup {Main}) /\ files \in SUBSET Procs

\* ingest_file up to "await repo.create(whisper)", run once gather has
\* scheduled the task.
IngestFile(p) ==
    /\ calls[Main].pc = "idle"
    /\ p \in files /\ calls[p].pc = "idle"
    /\ CallCreate(p, IngestInputs)

\* path.read_text raises: the task ends in its except clause, no store call made.
ReadFails(p) ==
    /\ calls[Main].pc = "idle"
    /\ p \in files /\ calls[p].pc = "idle"
    /\ calls' = [calls EXCEPT ![p] =
            [IdleCall EXCEPT !.op = "ingest_file", !.pc = "done", !.result = Raised("OSError")]]
    /\ UNCHANGED <<files, handles, stores, indexes_created, faults>>

\* await asyncio.gather(*tasks) is over: with an exception as soon as a task
\* has ended with one, which main does not catch; else, once every task has
\* ended, main goes on into repo.aclose().
Gathered ==
    /\ calls[Main].pc = "idle"
    /\ IF \E p \in files : Escapes(p)
       THEN /\ calls' = [calls EXCEPT ![Main] =
                   [IdleCall EXCEPT !.op = "main", !.pc = "done", !.result = Raised("gather")]]
            /\ UNCHANGED <<files, handles, stores, indexes_created, faults>>
       ELSE /\ \A p \in files : calls[p].pc = "done"
            /\ CallAclose(Main)

NextIngest ==
    \/ \E p \in Procs :
          \/ IngestFile(p)
          \/ ReadFails(p)
          \/ CreateIndexCreatedAt(p)
          \/ CreateIndexTags(p)
          \/ InsertOne(p)
          \/ Upsert(p)
          \/ PrimaryFault(p)
          \/ IndexFault(p)
    \/ Gathered
    \/ Neo4jClose(Main)

SpecIngest == InitIngest /\ [][NextIngest]_vars

\* The event loop runs every task that is ready, and every store call returns
\* or fails.
SpecIngestFair == SpecIngest /\ WF_vars(NextIngest)

\* Concurrent use: the tasks of Procs run calls on one whisper; every tag
\* list in play is non-empty.
ConcInputs == {WhisperInput("x", <<"a", "b">>)}
ConcIds == {LowerId(1)}
ConcFields == {[tags |-> Some(<<"a">>)], [tags |-> Some(<<"b">>)]}

NextConc ==
    \E p \in Procs :
        \/ CallCreate(p, ConcInputs)
        \/ CallGet(p, ConcIds)
        \/ CallUpdate(p, ConcIds, ConcFields)
        \/ CallDelete(p, ConcIds)
        \/ Step(p)

SpecConc == Init /\ [][NextConc]_vars

\* ------------------------------------------------------------ properties
Stepped(p) == calls'[p] # calls[p]
Finishes(p) == calls[p].pc # "done" /\ calls'[p].pc = "done"
Exists(id) == IsValidId(id) /\ ObjectId(id) \in DOMAIN docs
HasTags(doc) == ~IsNone(doc.tags) /\ Val(doc.tags) # <<>>

\* C1: when update(id, tags=T) on an existing whisper whose index node exists
\* completes with no store failure, the TAGGED edges leaving the node go to
\* exactly the distinct tags of T, whatever tags the whisper had before.
C1_TagReplacement ==
    [][\A p \in Procs :
          ( /\ calls[p].op = "update" /\ calls[p].pc = "replace_tags"
            /\ Finishes(p) /\ calls'[p].failed = "none"
            /\ Exists(calls[p].id)
            /\ calls[p].id = StrOf(ObjectId(calls[p].id))
            /\ calls[p].id \in DOMAIN nodes )
          => TagsOf(edges', calls[p].id) = ToSet(Val(calls[p].fields["tags"]))]_vars

\* C2: between calls that ran one at a time with no store failure, every
\* whisper of the primary store that has tags has its index node, and the
\* node's TAGGED edges go to exactly the distinct tags of the record.
C2_CrossStore ==
    (faults = 0 /\ ~Running(Caller)) =>
        \A o \in DOMAIN docs :
            HasTags(docs[o]) =>
                /\ StrOf(o) \in DOMAIN nodes
                /\ TagsOf(edges, StrOf(o)) = ToSet(Val(docs[o].tags))
                /\ ToSet(Val(docs[o].tags)) \subseteq tagNodes

\* C3: once two concurrent update(id, tags=...) calls on one existing whisper
\* have both completed, none of their store calls having failed, the tags
\* the index links to the whisper are the tags of the primary record.
UpdatedTags(p, o) ==
    /\ calls[p].op = "update" /\ calls[p].pc = "done"
    /\ WritesTags(calls[p].fields) /\ calls[p].id = StrOf(o)
    /\ calls[p].failed = "none" /\ calls[p].result.kind = "found"

C3_UpdatesConverge ==
    \A o \in DOMAIN docs :
        (faults = 0 /\ \A p \in Procs : UpdatedTags(p, o)) =>
            TagsOf(edges, StrOf(o)) = ToSet(Val(docs[o].tags))

\* C4: a create whose insert succeeded and whose index write failed returns
\* the whisper with its new id.
C4_CreateSurvivesIndexFailure ==
    \A p \in Procs :
        (calls[p].op = "create" /\ calls[p].pc = "done" /\ calls[p].failed = "index") =>
            /\ calls[p].result.kind = "found"
            /\ ~IsNone(calls[p].result.whisper.id)

\* C5: a delete that removed the primary record and whose index removal
\* failed returns true.
C5_DeleteSurvivesIndexFailure ==
    \A p \in Procs :
        ( /\ calls[p].op = "delete" /\ calls[p].pc = "done"
          /\ calls[p].failed = "index" /\ calls[p].deleted_count = 1 )
        => calls[p].result = Deleted(TRUE)

\* C6: delete(id) for an id without a primary record (malformed ids included)
\* leaves the primary store as it is and, no store call failing, returns false.
NoRecord(p) ==
    IF calls[p].pc = "detach_delete"
    THEN calls[p].deleted_count = 0
    ELSE ~Exists(calls[p].id)

C6_DeleteAbsent ==
    [][\A p \in Procs :
          (calls[p].op = "delete" /\ Stepped(p) /\ NoRecord(p)) =>
              /\ docs' = docs
              /\ (Finishes(p) /\ calls'[p].failed = "none")
                    => calls'[p].result = Deleted(FALSE)]_vars

C8_UpdateAbsent ==
    \A p \in Procs :
        ( /\ calls[p].op = "update" /\ calls[p].fields # NoFields
          /\ ~Exists(calls[p].id) /\ calls[p].failed = "none" )
        => /\ calls[p].pc # "replace_tags"
           /\ calls[p].pc = "done" => calls[p].result = NotFound

\* C9: an operation during which a primary-store call failed with a
\* connection error ends by raising.
C9_PrimaryFaultPropagates ==
    \A p \in Procs :
        (calls[p].pc = "done" /\ calls[p].failed = "primary") =>
            calls[p].result.kind = "raised"

\* C10: get on the id create has just returned, with no store failure, finds
\* a record with that id whose raw_text, source_url, tags and embeddings are
\* those of the whisper handed to create.
RoundTrip(p) ==
    /\ calls[p].op = "get" /\ calls[p].pc = "done" /\ calls[p].failed = "none"
    /\ ~IsNone(calls[p].created)
    /\ Some(calls[p].id) = Val(calls[p].created).id

C10_CreateGetRoundTrip ==
    \A p \in Procs :
        RoundTrip(p) =>
            LET w == Val(calls[p].created)
                r == calls[p].result
            IN /\ r.kind = "found"
               /\ r.whisper.id = w.id
               /\ r.whisper.raw_text = w.raw_text
               /\ r.whisper.source_url = w.source_url
               /\ r.whisper.tags = w.tags
               /\ r.whisper.embeddings = w.embeddings

C10_Witness ==
    /\ RoundTrip(Caller)
    /\ calls[Caller].result.kind = "found"
    /\ Val(calls[Caller].result.whisper.tags) = <<"b", "a", "b">>
    /\ nextOid > 2

\* C11: delete(id) of a whisper of the primary store, no store call failing,
\* removes the record and returns true; the record never comes back, so every
\* later get(id) returns not-found and every later delete(id) returns false.
Gone(o) == o < nextOid /\ o \notin DOMAIN docs

C11_DeleteExisting ==
    [][/\ \A o \in Oids : Gone(o) => Gone(o)'
       /\ \A p \in Procs :
            LET c == calls[p]
                d == calls'[p]
            IN Stepped(p) =>
                /\ (c.op = "delete" /\ c.pc = "delete_one" /\ Exists(c.id)
                        /\ d.failed = "none")
                     => (ObjectId(c.id) \notin DOMAIN docs' /\ d.deleted_count = 1)
                /\ (c.op = "delete" /\ c.pc = "detach_delete" /\ c.deleted_count = 1
                        /\ d.failed = "none")
                     => (d.pc = "done" /\ d.result = Deleted(TRUE))
                /\ (c.op = "get" /\ Finishes(p) /\ IsValidId(c.id) /\ Gone(ObjectId(c.id)))
                     => d.result = NotFound
                /\ (c.op = "delete" /\ c.pc = "detach_delete" /\ c.deleted_count = 0
                        /\ IsValidId(c.id) /\ Gone(ObjectId(c.id)) /\ d.failed = "none")
                     => d.result = Deleted(FALSE)]_vars

C11_Witness ==
    /\ calls[Caller].op = "delete" /\ calls[Caller].pc = "done"
    /\ calls[Caller].result = Deleted(TRUE)
    /\ Gone(ObjectId(calls[Caller].id))

\* C12: update(id) without fields writes nothing to either store's records
\* and returns what get(id) returns: the record as stored, or not-found.
C12_EmptyUpdateIsGet ==
    [][\A p \in Procs :
          LET c == calls[p]
              d == calls'[p]
          IN (d.op = "update" /\ d.fields = NoFields /\ Stepped(p)) =>
                /\ docs' = docs /\ index' = index
                /\ d.pc # "replace_tags"
                /\ (Finishes(p) /\ d.failed = "none") => d.result = Lookup(docs, d.id)]_vars

C12_Witness ==
    /\ calls[Caller].op = "update" /\ calls[Caller].fields = NoFields
    /\ calls[Caller].pc = "done" /\ calls[Caller].result.kind = "found"

\* C13: update(id, fields) with fields among which tags is absent or null
\* changes no node, no tag node and no edge of the index.
C13_NoTagsNoIndexWrite ==
    [][\A p \in Procs :
          LET d == calls'[p]
              NoTags == "tags" \notin DOMAIN d.fields \/ IsNone(d.fields["tags"])
          IN (d.op = "update" /\ d.fields # NoFields /\ NoTags /\ Stepped(p))
                => index' = index]_vars

C13_Witness ==
    LET c == calls[Caller]
    IN /\ c.op = "update" /\ c.pc = "done" /\ c.fields = [raw_text |-> "y"]
       /\ c.result.kind = "found"
       /\ c.id \in DOMAIN nodes /\ nodes[c.id].raw_text = "x"
       /\ docs[ObjectId(c.id)].raw_text = "y"

\* C14: update(id, fields) on an existing whisper, no store call failing,
\* leaves the record with the supplied value in every named field and the
\* old value in every other field, and returns the record as re-read.
C14_PartialOverwrite ==
    [][\A p \in Procs :
          LET c == calls[p]
              d == calls'[p]
              o == ObjectId(c.id)
          IN (c.op = "update" /\ Stepped(p) /\ d.failed = "none" /\ Exists(c.id)) =>
                /\ c.pc = "update_one" =>
                     /\ o \in DOMAIN docs' /\ DOMAIN docs'[o] = DOMAIN docs[o]
                     /\ \A k \in DOMAIN docs[o] :
                           docs'[o][k] = IF k \in DOMAIN c.fields THEN c.fields[k]
                                         ELSE docs[o][k]
                /\ c.pc # "update_one" => docs' = docs
                /\ (Finishes(p) /\ c.fields # NoFields) =>
                     d.result = Found(ModelOf(o, docs'[o]))]_vars

C14_Witness ==
    LET c == calls[Caller]
    IN /\ c.op = "update" /\ c.pc = "done" /\ c.fields = [tags |-> Some(<<"a">>)]
       /\ c.result.kind = "found"
       /\ c.result.whisper.tags = Some(<<"a">>)
       /\ c.result.whisper.raw_text = "y"
       /\ c.result.whisper.source_url = Some("u")

\* C15: when the insert_one of create fails, the call ends with the error
\* raised, and the records of the primary store and the nodes, tag nodes and
\* edges of the index are what they were when create was called.
C15_CreateAllOrNothing ==
    [][\A p \in Procs :
          LET c == calls[p]
              d == calls'[p]
          IN (Stepped(p) /\ d.op = "create") =>
                /\ d.pc \in {"create_index_created_at", "create_index_tags", "insert_one"}
                     => (docs' = docs /\ index' = index)
                /\ (c.pc = "insert_one" /\ d.failed = "primary")
                     => /\ docs' = docs /\ index' = index
                        /\ d.pc = "done"
                        /\ d.result = Raised("StoreUnavailable")]_vars

C15_Witness ==
    LET c == calls[Caller]
    IN /\ c.op = "create" /\ c.pc = "done" /\ c.failed = "primary"
       /\ indexes_created
       /\ c.result = Raised("StoreUnavailable")
       /\ IsNone(Val(c.whisper).id)
       /\ DOMAIN docs # {} /\ edges # {}

\* C16: when the index statement of create, update or delete fails after the
\* primary-store call of the same call succeeded, the call ends there and the
\* primary store keeps the change: the created record exists, the updated
\* record holds the supplied values, the deleted record is absent.
C16_NoRollback ==
    [][\A p \in Procs :
          LET c == calls[p]
              d == calls'[p]
          IN (Stepped(p) /\ c.failed = "none" /\ d.failed = "index") =>
                /\ docs' = docs /\ nextOid' = nextOid
                /\ d.pc = "done"
                /\ c.pc = "upsert" =>
                     LET o == ObjectId(Val(Val(c.whisper).id))
                     IN o \in DOMAIN docs' /\ docs'[o] = DocOf(Val(d.whisper))
                /\ (c.pc = "replace_tags" /\ c.updated # NotFound) =>
                     LET o == ObjectId(c.id)
                     IN /\ o \in DOMAIN docs'
                        /\ \A k \in DOMAIN c.fields : docs'[o][k] = c.fields[k]
                /\ (c.pc = "detach_delete" /\ c.deleted_count = 1) =>
                     ObjectId(c.id) \notin DOMAIN docs']_vars

C16_Witness ==
    LET c == calls[Caller]
    IN /\ c.op = "create" /\ c.pc = "done" /\ c.failed = "index"
       /\ ~IsNone(Val(c.whisper).id)
       /\ ObjectId(Val(Val(c.whisper).id)) \in DOMAIN docs
       /\ Val(Val(c.whisper).id) \notin DOMAIN nodes

C18_IdentityImmutable ==
    [][\A o \in DOMAIN docs \cap DOMAIN docs' :
          /\ docs'[o].created_at = docs[o].created_at
          /\ Lookup(docs', StrOf(o)).whisper.id = Some(StrOf(o))]_vars

\* C19: delete(id) takes out of the index the whisper node keyed by id and
\* the edges leaving it, and nothing else: every tag node stays, referred to
\* or not, and so do the node and the edges of every other whisper.
C19_DeleteLeavesTagNodes ==
    [][\A p \in Procs :
          LET c == calls[p]
              d == calls'[p]
          IN (Stepped(p) /\ d.op = "delete") =>
                /\ tagNodes' = tagNodes
                /\ DOMAIN nodes' \subseteq DOMAIN nodes /\ edges' \subseteq edges
                /\ \A id \in DOMAIN nodes : id # d.id => (id \in DOMAIN nodes' /\ nodes'[id] = nodes[id])
                /\ \A e \in edges : e[1] # d.id => e \in edges'
                /\ (c.pc = "detach_delete" /\ d.failed = "none")
                     => (d.id \notin DOMAIN nodes' /\ EdgesOf(edges', d.id) = {})]_vars

C19_Witness ==
    LET c == calls[Caller]
    IN /\ c.op = "delete" /\ c.pc = "done" /\ c.result = Deleted(TRUE)
       /\ tagNodes = {"a", "b"} /\ edges = {}
       /\ DOMAIN nodes # {} /\ c.id \notin DOMAIN nodes

\* C20: whenever no call is running and no store call has failed, every
\* whisper node of the index has a record in the primary store under its id,
\* however the create, update and delete calls of the tasks interleave.
C20_NoOrphanNode ==
    ((\A p \in Procs : ~Running(p)) /\ faults = 0)
        => \A id \in DOMAIN nodes : Exists(id)

\* C21: on one repository each of the two create_index calls of
\* ensure_indexes runs at most once, however the calls of the tasks
\* interleave: a create_index call completes only on a collection that does
\* not carry that index yet.
C21_IndexesCreatedOnce ==
    [][\A p \in Procs :
          LET c == calls[p]
              d == calls'[p]
          IN (Stepped(p) /\ d.failed = "none") =>
                /\ (c.pc = "create_index_created_at" /\ d.pc = "create_index_tags")
                     => "created_at" \notin mongoIndexes
                /\ (c.pc = "create_index_tags" /\ d.pc # "create_index_tags")
                     => "tags" \notin mongoIndexes]_vars

\* C22: in a run of main over any set of files, with any of the creates
\* failing, no failure of a task reaches main, aclose is called at most once
\* and only when every task has ended, no task steps and no store changes
\* once aclose has started, and eventually every task has ended and the one
\* aclose has returned.
TasksEnded == \A p \in files : calls[p].pc = "done"

C22_IngestionRun ==
    /\ [](calls[Main].result.kind # "raised")
    /\ [](acloses <= 1)
    /\ [](acloses >= 1 => TasksEnded)
    /\ [][acloses >= 1 => (stores' = stores /\ \A p \in Procs : calls'[p] = calls[p])]_vars
    /\ <>(/\ TasksEnded
          /\ acloses = 1
          /\ calls[Main].op = "aclose" /\ calls[Main].pc = "done"
          /\ calls[Main].result = Closed)

C22_Witness ==
    /\ files = Procs
    /\ calls[Main].op = "aclose" /\ calls[Main].pc = "done"
    /\ calls["t1"].result = Raised("StoreUnavailable")
    /\ calls["t2"].result.kind = "found"
    /\ DOMAIN docs = {1} /\ acloses = 1
====
